---- MODULE Spec2Model ----
(***************************************************************************)
(* Model of the Boston 311 triage pipeline (backend/classify_311.py,       *)
(* backend/extractor.py, backend/pipeline.py).                             *)
(*                                                                         *)
(* A run is one call of pipeline_311 or of process_and_save_request.  The  *)
(* two language-model calls are external capabilities: each call returns   *)
(* a parsed record, returns a response with no parsed record, or raises.   *)
(* Python dicts are modelled as records (DOMAIN d is the dict's key set),  *)
(* Python None as the record PyNone.                                       *)
(***************************************************************************)
EXTENDS Integers, Sequences, FiniteSets, TLC

VARIABLES entry, pc, response, extraction, classification, request_data,
          processed_request, llm_result, result, calls,
          entry_recommendation, resolved, runs,
          db, savers, next_request, cli, migration, importer

vars == <<entry, pc, response, extraction, classification, request_data,
          processed_request, llm_result, result, calls,
          entry_recommendation, resolved, runs,
          db, savers, next_request, cli, migration, importer>>

\* The command line tool of pipeline.py, the category migration and the
\* import of historical requests.
tool_vars == <<cli, migration, importer>>

\* The state of the runs of the two entry points.
run_vars == <<entry, pc, response, extraction, classification, request_data,
              processed_request, llm_result, result, calls,
              entry_recommendation, resolved, runs>>

\* The database and the executions of save_to_database.
save_vars == <<db, savers, next_request>>

\* Number of runs explored one after the other.
MaxRuns == 2

\* Python None where a record is expected, and where a string is expected.
PyNone == [py_none |-> TRUE]
NoneStr == "<None>"

----------------------------------------------------------------------------
(* classify_311.py *)

REDIRECT_TO_911 == "REDIRECT_TO_911"
EXPEDITE == "EXPEDITE"
REDIRECT_TO_OTHER_SERVICE == "REDIRECT_TO_OTHER_SERVICE"
PROCESS_NORMALLY == "PROCESS_NORMALLY"

RequestRecommendation ==
    {REDIRECT_TO_911, EXPEDITE, REDIRECT_TO_OTHER_SERVICE, PROCESS_NORMALLY}

\* The text the model gives as its rationale.
ModelReason == "model rationale"

DefaultReason == "Error processing request, defaulting to normal handling"

\* What client.beta.chat.completions.parse can do in pre_classify_request:
\* return a completion whose message.parsed is a PreClassificationResult
\* (with whatever recommendation the model wrote), return a completion
\* whose message.parsed is None, or raise.
ClassifierResponses ==
    [kind : {"parsed"}, is_emergency : BOOLEAN, belongs_in_311 : BOOLEAN,
     reason : {ModelReason}, recommendation : RequestRecommendation]
    \cup {[kind |-> "no_parsed"], [kind |-> "raise"]}

\* A resolver that tests the emergency flag alone first.
ResolverEmergencyFirst(is_emergency, belongs_in_311) ==
    IF is_emergency THEN EXPEDITE
    ELSE IF is_emergency /\ ~belongs_in_311 THEN REDIRECT_TO_911
    ELSE IF ~belongs_in_311 THEN REDIRECT_TO_OTHER_SERVICE
    ELSE PROCESS_NORMALLY

\* The if/elif chain of pre_classify_request.
Resolver(is_emergency, belongs_in_311) ==
    IF is_emergency /\ ~belongs_in_311 THEN REDIRECT_TO_911
    ELSE IF is_emergency THEN EXPEDITE
    ELSE IF ~belongs_in_311 THEN REDIRECT_TO_OTHER_SERVICE
    ELSE PROCESS_NORMALLY

DefaultClassification ==
    [is_emergency |-> FALSE, belongs_in_311 |-> TRUE,
     reason |-> DefaultReason, recommendation |-> PROCESS_NORMALLY]

\* The try block trusting the recommendation the model wrote.
ClassifyParsedKeepModelValue(resp) ==
    [is_emergency |-> resp.is_emergency,
     belongs_in_311 |-> resp.belongs_in_311,
     reason |-> resp.reason,
     recommendation |-> resp.recommendation]

\* The try block of pre_classify_request on a parsed result: the
\* recommendation field is overwritten with the resolver's value.
ClassifyParsed(resp) ==
    [is_emergency |-> resp.is_emergency,
     belongs_in_311 |-> resp.belongs_in_311,
     reason |-> resp.reason,
     recommendation |-> Resolver(resp.is_emergency, resp.belongs_in_311)]

\* pre_classify_request raises iff the capability call raises: the call is
\* made before the try block is entered.
ClassifierRaises(resp) == resp.kind = "raise"

\* The value pre_classify_request returns when it returns.  With
\* message.parsed = None the attribute access in the try block raises, the
\* except clause swallows it and the default is returned.
pre_classify_request(resp) ==
    IF resp.kind = "parsed" THEN ClassifyParsed(resp)
    ELSE DefaultClassification

----------------------------------------------------------------------------
(* extractor.py *)

ServiceRequestPriority == {"HIGH", "MEDIUM", "LOW", "CRITICAL"}

ServiceTypes == {"Public Works"}
ServiceSubtypes == {"Pothole"}
Addresses == {"855 Commonwealth Ave", "Unknown", ""}
Descriptions == {"Large pothole"}
LocationDetails == {NoneStr, "Near the bus stop"}

\* What client.beta.chat.completions.parse can do in extract_311_request.
ExtractorResponses ==
    [kind : {"parsed"}, service_type : ServiceTypes,
     service_subtype : ServiceSubtypes, location_address : Addresses,
     location_details : LocationDetails,
     description : Descriptions, priority : ServiceRequestPriority]
    \cup {[kind |-> "no_parsed"], [kind |-> "raise"]}

\* The parsed ServiceRequest with the three timestamps filled in.
ExtractParsed(resp) ==
    [service_type |-> resp.service_type,
     service_subtype |-> resp.service_subtype,
     location_address |-> resp.location_address,
     location_details |-> resp.location_details,
     description |-> resp.description,
     priority |-> resp.priority,
     additional_notes |-> NoneStr,
     create_timestamp |-> "now",
     update_timestamp |-> "now+1d",
     close_timestamp |-> "now+3d"]

\* The record built in the except clause of extract_311_request.
DefaultServiceRequest ==
    [service_type |-> "Unknown",
     service_subtype |-> "Unknown",
     location_address |-> "Unknown",
     location_details |-> "Unknown",
     description |-> "Error processing request",
     priority |-> "MEDIUM",
     additional_notes |-> "Error occurred during processing",
     create_timestamp |-> "now",
     update_timestamp |-> "now+1d",
     close_timestamp |-> "now+3d"]

\* extract_311_request: the call and the use of its parsed result are both
\* inside the try block, so a raising call and a missing parsed record
\* (attribute assignment on None) both end in the except clause.
extract_311_request(resp) ==
    IF resp.kind = "parsed" THEN ExtractParsed(resp)
    ELSE DefaultServiceRequest

\* The record kept of an extractor call that was answered by a test
\* double returning None in the place of extract_311_request (the
\* scenario in which the Extractor mock returns null).
NullExtraction == [kind |-> "double_none"]

\* Python truthiness of the value bound to request_data: a pydantic model
\* instance is truthy, None is falsy.
Truthy(x) == x # PyNone

----------------------------------------------------------------------------
(* classify_311.py, data_models.py: the record assembled for storage *)

\* create_triage_result: RequestPriority value by recommendation.
TriagePriority(recommendation) ==
    IF recommendation = EXPEDITE THEN "critical"
    ELSE IF recommendation = REDIRECT_TO_911 THEN "critical"
    ELSE IF recommendation = PROCESS_NORMALLY THEN "medium"
    ELSE IF recommendation = REDIRECT_TO_OTHER_SERVICE THEN "low"
    ELSE "medium"

\* Confidences are percentages (0.85 is 85).
create_triage_result(pre_classification) ==
    [is_emergency |-> pre_classification.is_emergency,
     confidence |-> 85,
     reasoning |-> pre_classification.reason,
     priority |-> TriagePriority(pre_classification.recommendation)]

\* The is_valid argument of the ValidationResult built by
\* convert_to_processed_service_request.
IsValidRequest(cls) ==
    cls.belongs_in_311 /\ cls.recommendation # REDIRECT_TO_911

\* The ClassificationResult built for a valid request without extracted
\* data: confidence 0.5.
DefaultClassificationResult ==
    [request_type |-> "General Request", department |-> "Unknown",
     confidence |-> 50]

\* The keyword arguments convert_to_processed_service_request gives to
\* ProcessedServiceRequest(...) in its three branches.  geocoding is not
\* among them in any branch: the field keeps its default None (written
\* here for the field to be readable), and the assignment of line 234
\* follows the constructor call of line 206.
ProcessedServiceRequestArguments(cls, data) ==
    LET triage == create_triage_result(cls)
        validation ==
            [is_valid |-> IsValidRequest(cls),
             confidence |-> 85,
             reasoning |-> cls.reason,
             invalid_reason |-> IF cls.belongs_in_311 THEN NoneStr
                                ELSE cls.reason]
        summary == IF Truthy(data) THEN data.description
                   ELSE "Unknown request"
    IN  IF ~validation.is_valid THEN
            [summary |-> summary, triage |-> triage,
             validation |-> validation, classification |-> PyNone,
             geocoding |-> PyNone, status |-> "invalid"]
        ELSE IF ~Truthy(data) THEN
            [summary |-> summary, triage |-> triage,
             validation |-> validation,
             classification |-> DefaultClassificationResult,
             geocoding |-> PyNone, status |-> "new"]
        ELSE
            [summary |-> summary, triage |-> triage,
             validation |-> validation,
             classification |->
                 [request_type |-> data.service_subtype,
                  department |-> data.service_type, confidence |-> 80],
             geocoding |-> PyNone, status |-> "new"]

\* ProcessedServiceRequest.validate_classification_presence, as pydantic
\* runs it for ProcessedServiceRequest(...).  It is registered with
\* @model_validator(mode='after') and its first parameter is named cls, so
\* it is called with the model object as values.  The object has no
\* attribute get: values.get("validation"), the first statement, raises
\* AttributeError for every object, and the presence test below it is not
\* reached.
validate_classification_presence(values) == "AttributeError"

\* convert_to_processed_service_request: in each of its three branches
\* the call ProcessedServiceRequest(...) raises from the validator, and
\* nothing in the function catches it.  No branch returns a record; the
\* statements after the constructor call of the third branch (the
\* GeocodingResult of lines 215-234) are not executed.
convert_to_processed_service_request(cls, data) ==
    [raised |->
        validate_classification_presence(
            ProcessedServiceRequestArguments(cls, data))]

\* ProcessedServiceRequest.is_actionable
is_actionable(req) ==
    /\ ~req.triage.is_emergency
    /\ req.validation.is_valid
    /\ req.classification # PyNone

\* LLMProcessingResult.requires_human_review
requires_human_review(confidence_score, req) ==
    \/ confidence_score < 70
    \/ req.validation.is_valid /\ req.validation.confidence < 80
    \/ req.classification # PyNone /\ req.classification.confidence < 75

----------------------------------------------------------------------------
(* pipeline.py: pipeline_311 *)

\* The value written over the extracted priority on the EXPEDITE path.
URGENT == "URGENT"

EmergencyAction ==
    "Please call 911 immediately. This requires emergency services."
NonServiceAction ==
    "This issue should be directed to another service provider."
ExpediteFailureMessage ==
    "Failed to extract request details, but this appears to be an urgent 311 matter."
NormalFailureMessage == "Failed to extract request details."
FallbackMessage == "Could not determine how to process this request."
SaveFailureMessage ==
    "Failed to extract request details from a valid 311 request."

\* Step 2 returning the two redirect dicts with their status keys exchanged.
Step2ResultStatusSwapped(cls) ==
    IF cls.recommendation = REDIRECT_TO_911 THEN
        [status |-> "non_311", action |-> EmergencyAction,
         reason |-> cls.reason, classification |-> cls]
    ELSE IF cls.recommendation = REDIRECT_TO_OTHER_SERVICE THEN
        [status |-> "emergency", action |-> NonServiceAction,
         reason |-> cls.reason, classification |-> cls]
    ELSE
        [status |-> "error", message |-> FallbackMessage,
         classification |-> cls]

\* The dict pipeline_311 returns without calling the extractor: the two
\* redirect branches and the final else.
Step2Result(cls) ==
    IF cls.recommendation = REDIRECT_TO_911 THEN
        [status |-> "emergency", action |-> EmergencyAction,
         reason |-> cls.reason, classification |-> cls]
    ELSE IF cls.recommendation = REDIRECT_TO_OTHER_SERVICE THEN
        [status |-> "non_311", action |-> NonServiceAction,
         reason |-> cls.reason, classification |-> cls]
    ELSE
        [status |-> "error", message |-> FallbackMessage,
         classification |-> cls]

\* A chain whose third test is its last: PROCESS_NORMALLY has no branch.
NeedsExtractionExpediteOnly(cls) == cls.recommendation = EXPEDITE

\* The two elif branches that call extract_311_request.
NeedsExtraction(cls) ==
    /\ cls.recommendation # REDIRECT_TO_911
    /\ cls.recommendation # REDIRECT_TO_OTHER_SERVICE
    /\ cls.recommendation = EXPEDITE \/ cls.recommendation = PROCESS_NORMALLY

\* An EXPEDITE branch that leaves the extracted priority in place.
OverridePriorityOmitted(request_dict) == request_dict

\* request_dict["priority"] = "URGENT"
OverridePriority(request_dict) == [request_dict EXCEPT !.priority = URGENT]

\* request_dict["classification"] = ...; request_dict["status"] = ...
\* Attaching the two keys and writing the summary placeholder over the
\* extracted description.
AttachOverDescription(request_dict, cls, status) ==
    ("classification" :> cls) @@ ("status" :> status)
    @@ [request_dict EXCEPT !.description = "Unknown request"]

\* request_dict["classification"] = ...; request_dict["status"] = ...
Attach(request_dict, cls, status) ==
    ("classification" :> cls) @@ ("status" :> status) @@ request_dict

\* Failure dicts that leave the classification out.
Step3ResultFailureBare(cls, data) ==
    IF cls.recommendation = EXPEDITE THEN
        IF Truthy(data)
        THEN Attach(OverridePriority(data), cls, "expedited")
        ELSE [status |-> "error", message |-> ExpediteFailureMessage]
    ELSE
        IF Truthy(data)
        THEN Attach(data, cls, "normal")
        ELSE [status |-> "error", message |-> NormalFailureMessage]

\* The dict pipeline_311 returns after extract_311_request has returned:
\* the extracted record with classification and status attached
\* (request_data.model_dump() is a copy: data itself is not changed), or
\* the failure dict of the branch when request_data is falsy.
Step3Result(cls, data) ==
    IF cls.recommendation = EXPEDITE THEN
        IF Truthy(data)
        THEN Attach(OverridePriority(data), cls, "expedited")
        ELSE [status |-> "error", message |-> ExpediteFailureMessage,
              classification |-> cls]
    ELSE
        IF Truthy(data)
        THEN Attach(data, cls, "normal")
        ELSE [status |-> "error", message |-> NormalFailureMessage,
              classification |-> cls]

----------------------------------------------------------------------------
(* src/pipeline.py: pipeline_311 over a mapping *)

\* What pre_classify_request and extract_311_request name inside
\* src/pipeline.py: nothing (the module imports and defines neither), the
\* two stages of the repository when a caller has put them into the
\* module's namespace, or the stages with a classifier that returns its
\* classification as a mapping, the style the function is written for.
StageBindings == {"unbound", "repository", "mapping"}

\* The mapping a mapping-style classifier returns for the classification
\* cls: the four fields under their names.
ClassificationMapping(cls) ==
    [key \in {"is_emergency", "belongs_in_311", "reason", "recommendation"}
        |-> cls[key]]

\* An EXPEDITE branch that leaves the extracted priority in place.
pipeline_311_mapping_no_override(binding, resp, data) ==
    LET mapping == ClassificationMapping(pre_classify_request(resp))
        classify == <<"pre_classify_request">>
        extract == <<"pre_classify_request", "extract_311_request">>
    IN  IF binding = "unbound" THEN
            [outcome |-> "raised", exception |-> "NameError", calls |-> <<>>]
        ELSE IF ClassifierRaises(resp) THEN
            [outcome |-> "raised", exception |-> "capability",
             calls |-> classify]
        ELSE IF binding = "repository" THEN
            [outcome |-> "raised", exception |-> "TypeError",
             calls |-> classify]
        ELSE IF mapping["recommendation"] = "REDIRECT_TO_911" THEN
            [outcome |-> "returned", calls |-> classify,
             result |->
                [status |-> "emergency",
                 action |-> "Please call 911 immediately. This requires emergency services.",
                 reason |-> mapping["reason"],
                 classification |-> mapping]]
        ELSE IF mapping["recommendation"] = "REDIRECT_TO_OTHER_SERVICE" THEN
            [outcome |-> "returned", calls |-> classify,
             result |->
                [status |-> "non_311",
                 action |-> "This issue should be directed to another service provider.",
                 reason |-> mapping["reason"],
                 classification |-> mapping]]
        ELSE IF mapping["recommendation"] = "EXPEDITE" THEN
            [outcome |-> "returned", calls |-> extract,
             result |->
                IF data # PyNone
                THEN ("classification" :> mapping)
                     @@ ("status" :> "expedited")
                     @@ data
                ELSE [status |-> "error",
                      message |-> "Failed to extract request details, but this appears to be an urgent 311 matter.",
                      classification |-> mapping]]
        ELSE IF mapping["recommendation"] = "PROCESS_NORMALLY" THEN
            [outcome |-> "returned", calls |-> extract,
             result |->
                IF data # PyNone
                THEN ("classification" :> mapping)
                     @@ ("status" :> "normal")
                     @@ data
                ELSE [status |-> "error",
                      message |-> "Failed to extract request details.",
                      classification |-> mapping]]
        ELSE
            [outcome |-> "returned", calls |-> classify,
             result |->
                [status |-> "error",
                 message |-> "Could not determine how to process this request.",
                 classification |-> mapping]]

\* src/pipeline.py's pipeline_311: the stage calls it makes and how it
\* ends, for the binding of the stage names, the response of the
\* classifier's capability and the value the extractor returns when it
\* is called.  Unbound, line 15 raises NameError before any stage is
\* called.  The classifier's exception leaves the function.  Bound to the
\* repository's stages, the PreClassificationResult returned is not
\* subscriptable: classification["recommendation"] on line 18 raises
\* TypeError, so no branch of the chain is entered.  Given a mapping, the
\* chain of lines 18 to 73 is walked.
pipeline_311_mapping(binding, resp, data) ==
    LET mapping == ClassificationMapping(pre_classify_request(resp))
        classify == <<"pre_classify_request">>
        extract == <<"pre_classify_request", "extract_311_request">>
    IN  IF binding = "unbound" THEN
            [outcome |-> "raised", exception |-> "NameError", calls |-> <<>>]
        ELSE IF ClassifierRaises(resp) THEN
            [outcome |-> "raised", exception |-> "capability",
             calls |-> classify]
        ELSE IF binding = "repository" THEN
            [outcome |-> "raised", exception |-> "TypeError",
             calls |-> classify]
        ELSE IF mapping["recommendation"] = "REDIRECT_TO_911" THEN
            [outcome |-> "returned", calls |-> classify,
             result |->
                [status |-> "emergency",
                 action |-> "Please call 911 immediately. This requires emergency services.",
                 reason |-> mapping["reason"],
                 classification |-> mapping]]
        ELSE IF mapping["recommendation"] = "REDIRECT_TO_OTHER_SERVICE" THEN
            [outcome |-> "returned", calls |-> classify,
             result |->
                [status |-> "non_311",
                 action |-> "This issue should be directed to another service provider.",
                 reason |-> mapping["reason"],
                 classification |-> mapping]]
        ELSE IF mapping["recommendation"] = "EXPEDITE" THEN
            [outcome |-> "returned", calls |-> extract,
             result |->
                IF data # PyNone
                THEN ("classification" :> mapping)
                     @@ ("status" :> "expedited")
                     @@ [data EXCEPT !["priority"] = "URGENT"]
                ELSE [status |-> "error",
                      message |-> "Failed to extract request details, but this appears to be an urgent 311 matter.",
                      classification |-> mapping]]
        ELSE IF mapping["recommendation"] = "PROCESS_NORMALLY" THEN
            [outcome |-> "returned", calls |-> extract,
             result |->
                IF data # PyNone
                THEN ("classification" :> mapping)
                     @@ ("status" :> "normal")
                     @@ data
                ELSE [status |-> "error",
                      message |-> "Failed to extract request details.",
                      classification |-> mapping]]
        ELSE
            [outcome |-> "returned", calls |-> classify,
             result |->
                [status |-> "error",
                 message |-> "Could not determine how to process this request.",
                 classification |-> mapping]]

----------------------------------------------------------------------------
(* pipeline.py: save_to_database *)

\* Executions of save_to_database in the save specification.
MaxSaves == 2

\* The processes that can be inside save_to_database at the same time, each
\* on its own connection.
Procs == {1, 2}

\* The tables save_to_database and update_database touch.  A department
\* or request type row
\* is [id, name]; the id of a row save_to_database inserts is the request
\* id of the execution that inserted it, so two rows of one name stay two
\* rows.
Tables ==
    {"departments", "request_types", "request_type_department_mapping",
     "service_requests", "ai_analysis_results", "request_history",
     "priorities", "statuses"}

EmptyTables == [t \in Tables |-> {}]

\* The characters of a name, for the names whose characters matter to
\* ILIKE; any other name is one opaque symbol.
Chars(name) ==
    CASE name = "DPW" -> <<"D", "P", "W">>
      [] name = "dpw" -> <<"d", "p", "w">>
      [] name = "D_W" -> <<"D", "_", "W">>
      [] OTHER -> <<name>>

LowerChar(c) ==
    CASE c = "D" -> "d"
      [] c = "P" -> "p"
      [] c = "W" -> "w"
      [] c = "New" -> "new"
      [] c = "Open" -> "open"
      [] c = "Pothole" -> "pothole"
      [] OTHER -> c

\* A name with its characters folded to lower case.
FoldName(name) ==
    [i \in 1..Len(Chars(name)) |-> LowerChar(Chars(name)[i])]

\* LIKE on folded characters: % matches any run of characters, _ matches
\* any one character, every other character matches itself.
RECURSIVE LikeMatch(_, _)
LikeMatch(pattern, str) ==
    IF pattern = <<>> THEN str = <<>>
    ELSE IF Head(pattern) = "%" THEN
        \/ LikeMatch(Tail(pattern), str)
        \/ str # <<>> /\ LikeMatch(pattern, Tail(str))
    ELSE
        /\ str # <<>>
        /\ \/ Head(pattern) = "_"
           \/ LowerChar(Head(pattern)) = LowerChar(Head(str))
        /\ LikeMatch(Tail(pattern), Tail(str))

\* name ILIKE pattern, the pattern being the name the request carries.
ILike(name, pattern) == LikeMatch(Chars(pattern), Chars(name))

\* The rows a statement of a transaction sees: what is committed and what
\* the transaction wrote itself.
Visible(database, tx, table) == database[table] \cup tx[table]

\* SELECT id FROM <table> WHERE name ILIKE %s
SelectByName(database, tx, table, pattern) ==
    {row \in Visible(database, tx, table) : ILike(row.name, pattern)}

\* conn.commit(): the writes of the transaction become part of the
\* database.
CommitTx(database, tx) == [t \in Tables |-> database[t] \cup tx[t]]

\* A rollback that keeps what the transaction wrote.
RollbackKeepsWrites(database, tx) ==
    [t \in Tables |-> database[t] \cup tx[t]]

\* conn.rollback(): the writes of the transaction are discarded.
Rollback(database, tx) == database

\* SELECT id FROM <table> WHERE name = %s: the ids of the matching rows.
SelectIdByName(database, tx, table, name) ==
    {row.id : row \in {r \in Visible(database, tx, table) : r.name = name}}

\* str.capitalize() on the values of RequestStatus and RequestPriority.
Capitalize(value) ==
    CASE value = "new" -> "New"
      [] value = "in_progress" -> "In_progress"
      [] value = "resolved" -> "Resolved"
      [] value = "closed" -> "Closed"
      [] value = "invalid" -> "Invalid"
      [] value = "low" -> "Low"
      [] value = "medium" -> "Medium"
      [] value = "high" -> "High"
      [] value = "critical" -> "Critical"
      [] OTHER -> value

\* str(e) of an exception raised by the database driver.
DatabaseError == "database failure"

\* The database parameters in the order get_db_connection tests them.
DbParamOrder == <<"DB_HOST", "DB_PORT", "DB_NAME", "DB_USER", "DB_PASSWORD">>

\* ', '.join(missing_params)
RECURSIVE JoinMissing(_, _)
JoinMissing(missing, i) ==
    IF i > Len(DbParamOrder) THEN ""
    ELSE LET rest == JoinMissing(missing, i + 1)
         IN  IF DbParamOrder[i] \notin missing THEN rest
             ELSE IF rest = "" THEN DbParamOrder[i]
             ELSE DbParamOrder[i] \o ", " \o rest

\* str(e) of what get_db_connection raises: the ValueError for missing
\* parameters, or the ConnectionError wrapping a driver error or another
\* exception.
ConnectionErrors(missing) ==
    IF missing # {} THEN
        {"Missing required database parameters: " \o JoinMissing(missing, 1)}
    ELSE
        {"Failed to connect to or verify database: " \o DatabaseError,
         "An unexpected error occurred during DB connection: "
             \o DatabaseError}

\* One execution of save_to_database: where it is, the record it saves,
\* its request id (0: none yet), the uncommitted writes of its
\* transaction, the four ids looked up (0: None), whether its connection
\* and cursor are open, the statement that raised, str(e) of the
\* exception that left it, and how it ended.
IdleSaver ==
    [pc |-> "idle", request |-> PyNone, request_id |-> 0,
     tx |-> EmptyTables, status_id |-> 0, priority_id |-> 0,
     department_id |-> 0, request_type_id |-> 0,
     conn |-> FALSE, cursor |-> FALSE, failed_at |-> "none",
     error |-> "", outcome |-> "none"]

\* The statements inside the inner try block.
StatementSteps ==
    {"status_select", "status_default", "priority_select",
     "priority_default", "dept_select", "dept_insert", "type_select",
     "type_insert", "mapping_select", "mapping_insert", "insert_request",
     "insert_analysis", "commit"}

----------------------------------------------------------------------------
(* pipeline.py: main; migrate_311_categories.py: update_database *)

\* The environment variables get_db_connection and main require.
DbParams == {"DB_HOST", "DB_PORT", "DB_NAME", "DB_USER", "DB_PASSWORD"}

\* main() before it is called: where it is, whether OPENAI_API_KEY is set,
\* what the command line holds (arguments that parse, arguments that do
\* not, or -h / --help), whether --save-to-db was given, the
\* database parameters that are not set, whether the result was printed,
\* how main was left (a return statement, or the SystemExit argparse
\* raises) and the status it was left with (-1: none yet).
IdleCli ==
    [pc |-> "idle", api_key |-> FALSE, args |-> "usage_error",
     save_to_db |-> FALSE, missing_db_params |-> {}, printed |-> FALSE,
     left_by |-> "none", exit_code |-> -1]

\* update_database before it is called: where it is, its three argument
\* lists, the position in the list being inserted, the tables as they
\* were when the transaction began and as the open transaction sees them,
\* the two ids of the pass of the mapping loop it is in (0: None), the
\* statements issued so far and how it ended.
IdleMigration ==
    [pc |-> "idle", departments |-> <<>>, request_types |-> <<>>,
     statuses |-> <<>>, index |-> 0, before |-> EmptyTables,
     view |-> EmptyTables, dept_id |-> 0, rt_id |-> 0, log |-> <<>>,
     outcome |-> "none"]

\* The import before its main is called: where it is, the three maps of
\* fetch_reference_data (the rows a dict keeps, one per lowered name),
\* the list data_to_insert, the number of batches copied, the rows its
\* open transaction has written and how it ended.
IdleImporter ==
    [pc |-> "idle", department_map |-> {}, request_type_map |-> {},
     status_map |-> {}, data_to_insert |-> <<>>, batch_num |-> 0,
     tx |-> {}, outcome |-> "none"]

\* The eight DELETE statements, parents before children.
DeleteOrderParentsFirst ==
    <<"statuses", "priorities", "departments", "request_types",
      "request_type_department_mapping", "service_requests",
      "request_history", "ai_analysis_results">>

\* The eight DELETE statements of update_database in program order.
DeleteOrder ==
    <<"ai_analysis_results", "request_history", "service_requests",
      "request_type_department_mapping", "request_types", "departments",
      "priorities", "statuses">>

\* The department update_database maps a request type to: the value of
\* the first dept_mappings keyword contained in the lowered name, or the
\* default.
DepartmentFor(request_type_name) ==
    CASE request_type_name = "Pothole" -> "Public Works"
      [] request_type_name = "Street Light Outage" -> "Transportation"
      [] request_type_name = "Noise Complaint" -> "Police"
      [] OTHER -> "Mayor's Office"

----------------------------------------------------------------------------
(* State of one run *)

NoResponse == [kind |-> "not_called"]
NoResult == [status |-> "pending"]
NoRecommendation == "none"

NoLLMResult == [confidence_score |-> 0]

TypeOK ==
    /\ entry \in {"none", "pipeline_311", "process_and_save_request",
                  "convert_to_processed_service_request",
                  "save_to_database",
                  "update_database"}
    /\ pc \in {"idle", "p_classify", "p_route", "p_extract", "p_return",
               "s_classify", "s_route", "s_extract", "s_convert", "done",
               "raised", "raised_validation", "a_convert",
               "a_attribute_error"}
    /\ response \in ClassifierResponses \cup {NoResponse}
    /\ extraction \in ExtractorResponses \cup {NoResponse, NullExtraction}
    /\ entry_recommendation \in RequestRecommendation \cup {NoRecommendation}
    /\ runs \in 0..MaxRuns
    /\ \A p \in Procs :
          savers[p].pc \in StatementSteps \cup
              {"idle", "connect", "verify", "cursor", "rollback", "close",
               "finished"}

Init ==
    /\ entry = "none"
    /\ pc = "idle"
    /\ response = NoResponse
    /\ extraction = NoResponse
    /\ classification = PyNone
    /\ request_data = PyNone
    /\ processed_request = PyNone
    /\ llm_result = NoLLMResult
    /\ result = NoResult
    /\ calls = <<>>
    /\ entry_recommendation = NoRecommendation
    /\ resolved = {}
    /\ runs = 0
    /\ db = EmptyTables
    /\ savers = [p \in Procs |-> IdleSaver]
    /\ next_request = 1
    /\ cli = IdleCli
    /\ migration = IdleMigration
    /\ importer = IdleImporter

\* pipeline_311 starting the extraction before it has classified.
CallPipelineExtractFirst ==
    /\ pc = "idle"
    /\ runs < MaxRuns
    /\ runs' = runs + 1
    /\ entry' = "pipeline_311"
    /\ pc' = "p_extract"
    /\ UNCHANGED <<response, extraction, classification, request_data,
                   processed_request, result, calls, entry_recommendation,
                   resolved>>
    /\ UNCHANGED llm_result
    /\ UNCHANGED save_vars
    /\ UNCHANGED tool_vars

\* A caller invokes pipeline_311(conversation).
CallPipeline ==
    /\ pc = "idle"
    /\ runs < MaxRuns
    /\ runs' = runs + 1
    /\ entry' = "pipeline_311"
    /\ pc' = "p_classify"
    /\ UNCHANGED <<response, extraction, classification, request_data,
                   processed_request, result, calls, entry_recommendation,
                   resolved>>
    /\ UNCHANGED llm_result
    /\ UNCHANGED save_vars
    /\ UNCHANGED tool_vars

\* A caller invokes process_and_save_request(conversation).
CallProcessAndSave ==
    /\ pc = "idle"
    /\ runs < MaxRuns
    /\ runs' = runs + 1
    /\ entry' = "process_and_save_request"
    /\ pc' = "s_classify"
    /\ UNCHANGED <<response, extraction, classification, request_data,
                   processed_request, result, calls, entry_recommendation,
                   resolved>>
    /\ UNCHANGED llm_result
    /\ UNCHANGED save_vars
    /\ UNCHANGED tool_vars

\* classification = pre_classify_request(conversation), at the pc given,
\* going on to next when it returns.
Classify(at, next) ==
    /\ pc = at
    /\ \E resp \in ClassifierResponses :
        /\ response' = resp
        /\ calls' = Append(calls, "pre_classify_request")
        /\ IF ClassifierRaises(resp) THEN
              /\ pc' = "raised"
              /\ UNCHANGED <<classification, entry_recommendation, resolved>>
           ELSE
              LET cls == pre_classify_request(resp) IN
              /\ pc' = next
              /\ classification' = cls
              /\ entry_recommendation' =
                    IF entry_recommendation = NoRecommendation
                    THEN cls.recommendation ELSE entry_recommendation
              /\ resolved' =
                    IF resp.kind = "parsed"
                    THEN resolved \cup {<<resp.is_emergency,
                                          resp.belongs_in_311,
                                          cls.recommendation>>}
                    ELSE resolved
    /\ UNCHANGED <<entry, extraction, request_data, processed_request,
                   result, runs>>
    /\ UNCHANGED llm_result
    /\ UNCHANGED save_vars
    /\ UNCHANGED tool_vars

\* An extractor call that is made again when the capability failed.
ExtractRetried(at, next) ==
    /\ pc = at
    /\ \E resp \in ExtractorResponses :
        /\ extraction' = resp
        /\ request_data' = extract_311_request(resp)
        /\ pc' = IF resp.kind = "parsed" THEN next ELSE at
    /\ calls' = Append(calls, "extract_311_request")
    /\ UNCHANGED <<entry, response, classification, processed_request,
                   result, entry_recommendation, resolved, runs>>
    /\ UNCHANGED llm_result
    /\ UNCHANGED save_vars
    /\ UNCHANGED tool_vars

\* request_data = extract_311_request(conversation): the name is looked
\* up in the module when the call is made, and is the function of
\* extractor.py or the double.
Extract(at, next) ==
    /\ pc = at
    /\ \/ \E resp \in ExtractorResponses :
            /\ extraction' = resp
            /\ request_data' = extract_311_request(resp)
       \/ /\ extraction' = NullExtraction
          /\ request_data' = PyNone
    /\ calls' = Append(calls, "extract_311_request")
    /\ pc' = next
    /\ UNCHANGED <<entry, response, classification, processed_request,
                   result, entry_recommendation, resolved, runs>>
    /\ UNCHANGED llm_result
    /\ UNCHANGED save_vars
    /\ UNCHANGED tool_vars

\* pipeline_311, step 1.
PipelineClassify == Classify("p_classify", "p_route")

\* pipeline_311, step 2: return a redirect dict or go on to extraction.
PipelineRoute ==
    /\ pc = "p_route"
    /\ IF NeedsExtraction(classification)
       THEN pc' = "p_extract" /\ UNCHANGED result
       ELSE pc' = "done" /\ result' = Step2Result(classification)
    /\ UNCHANGED <<entry, response, extraction, classification, request_data,
                   processed_request, calls, entry_recommendation, resolved,
                   runs>>
    /\ UNCHANGED llm_result
    /\ UNCHANGED save_vars
    /\ UNCHANGED tool_vars

\* pipeline_311, step 3: the extractor call.
PipelineExtract == Extract("p_extract", "p_return")

\* pipeline_311, step 3: build and return the dict.
PipelineReturn ==
    /\ pc = "p_return"
    /\ result' = Step3Result(classification, request_data)
    /\ pc' = "done"
    /\ UNCHANGED <<entry, response, extraction, classification, request_data,
                   processed_request, calls, entry_recommendation, resolved,
                   runs>>
    /\ UNCHANGED llm_result
    /\ UNCHANGED save_vars
    /\ UNCHANGED tool_vars

\* process_and_save_request, step 1.
SaveClassify == Classify("s_classify", "s_route")

\* process_and_save_request, step 2: a redirect is handed to
\* pipeline_311(conversation), which starts from the conversation again.
SaveRoute ==
    /\ pc = "s_route"
    /\ pc' = IF classification.recommendation
                    \in {REDIRECT_TO_911, REDIRECT_TO_OTHER_SERVICE}
             THEN "p_classify" ELSE "s_extract"
    /\ UNCHANGED <<entry, response, extraction, classification, request_data,
                   processed_request, result, calls, entry_recommendation,
                   resolved, runs>>
    /\ UNCHANGED llm_result
    /\ UNCHANGED save_vars
    /\ UNCHANGED tool_vars

\* process_and_save_request, step 3.
SaveExtract == Extract("s_extract", "s_convert")

\* process_and_save_request, steps 3 and 4: the check of request_data and
\* the call of convert_to_processed_service_request, whose construction
\* of the ProcessedServiceRequest raises; nothing catches the exception,
\* so steps 5 and 6 (the LLMProcessingResult and save_to_database) are
\* not reached.
SaveConvert ==
    /\ pc = "s_convert"
    /\ IF ~Truthy(request_data) THEN
          /\ result' = [status |-> "error", message |-> SaveFailureMessage,
                        classification |-> classification]
          /\ pc' = "done"
       ELSE
          /\ convert_to_processed_service_request(classification,
                                                  request_data)
                = [raised |-> "AttributeError"]
          /\ pc' = "raised_validation"
          /\ UNCHANGED result
    /\ UNCHANGED <<entry, response, extraction, classification, request_data,
                   processed_request, llm_result, calls,
                   entry_recommendation, resolved, runs>>
    /\ UNCHANGED save_vars
    /\ UNCHANGED tool_vars

\* The run is over (a dict was returned or an exception left the entry
\* point); the next run starts from a fresh frame.
Return ==
    /\ pc \in {"done", "raised", "raised_validation"}
    /\ pc' = "idle"
    /\ entry' = "none"
    /\ response' = NoResponse
    /\ extraction' = NoResponse
    /\ classification' = PyNone
    /\ request_data' = PyNone
    /\ processed_request' = PyNone
    /\ llm_result' = NoLLMResult
    /\ result' = NoResult
    /\ calls' = <<>>
    /\ entry_recommendation' = NoRecommendation
    /\ UNCHANGED <<resolved, runs>>
    /\ UNCHANGED save_vars
    /\ UNCHANGED tool_vars

\* get_db_connection() up to psycopg2.connect(...): the ValueError for
\* missing parameters, a connection, or the ConnectionError raised with
\* no connection made.  The outer except clause of save_to_database
\* prints and re-raises.
GetDbConnection(p) ==
    /\ savers[p].pc = "connect"
    /\ \/ /\ cli.missing_db_params = {}
          /\ savers' = [savers EXCEPT ![p].conn = TRUE, ![p].pc = "verify"]
       \/ \E e \in ConnectionErrors(cli.missing_db_params) :
             savers' = [savers EXCEPT ![p].outcome = "raise",
                                      ![p].error = e,
                                      ![p].pc = "finished"]
    /\ UNCHANGED <<db, next_request>>
    /\ UNCHANGED run_vars
    /\ UNCHANGED tool_vars

\* get_db_connection(), cur.execute("SELECT 1;"): the connection is
\* returned, or the except clause closes it and raises ConnectionError.
VerifyConnection(p) ==
    /\ savers[p].pc = "verify"
    /\ \/ savers' = [savers EXCEPT ![p].pc = "cursor"]
       \/ \E e \in ConnectionErrors({}) :
             savers' = [savers EXCEPT ![p].conn = FALSE,
                                      ![p].outcome = "raise",
                                      ![p].error = e,
                                      ![p].pc = "finished"]
    /\ UNCHANGED <<db, next_request>>
    /\ UNCHANGED run_vars
    /\ UNCHANGED tool_vars

\* conn.cursor(...), before the inner try block is entered: when it raises,
\* only the outer except clause runs and the connection stays open.
OpenCursor(p) ==
    /\ savers[p].pc = "cursor"
    /\ \E ok \in BOOLEAN :
         savers' = [savers EXCEPT ![p] =
                       IF ok THEN [@ EXCEPT !.cursor = TRUE,
                                            !.pc = "status_select"]
                       ELSE [@ EXCEPT !.outcome = "raise",
                                      !.error = DatabaseError,
                                      !.pc = "finished"]]
    /\ UNCHANGED <<db, next_request>>
    /\ UNCHANGED run_vars
    /\ UNCHANGED tool_vars

\* SELECT id FROM statuses WHERE name = %s with the capitalized status of
\* the record; fetchone() gives one of the matching rows or None.
SelectStatus(p) ==
    /\ savers[p].pc = "status_select"
    /\ LET ids == SelectIdByName(db, savers[p].tx, "statuses",
                                 Capitalize(savers[p].request.status))
       IN  IF ids = {} THEN
               savers' = [savers EXCEPT ![p].status_id = 0,
                                        ![p].pc = "status_default"]
           ELSE
               \E id \in ids :
                   savers' = [savers EXCEPT ![p].status_id = id,
                                            ![p].pc = "priority_select"]
    /\ UNCHANGED <<db, next_request>>
    /\ UNCHANGED run_vars
    /\ UNCHANGED tool_vars

\* if not status_id: SELECT id FROM statuses WHERE name = 'New'
SelectStatusDefault(p) ==
    /\ savers[p].pc = "status_default"
    /\ LET ids == SelectIdByName(db, savers[p].tx, "statuses", "New")
       IN  \E id \in IF ids = {} THEN {0} ELSE ids :
               savers' = [savers EXCEPT ![p].status_id = id,
                                        ![p].pc = "priority_select"]
    /\ UNCHANGED <<db, next_request>>
    /\ UNCHANGED run_vars
    /\ UNCHANGED tool_vars

\* The step after the lookups: the classification branch is taken or
\* skipped.
AfterLookups(request) ==
    IF request.classification # PyNone THEN "dept_select"
    ELSE "insert_request"

\* SELECT id FROM priorities WHERE name = %s with the capitalized triage
\* priority of the record.
SelectPriority(p) ==
    /\ savers[p].pc = "priority_select"
    /\ LET ids == SelectIdByName(db, savers[p].tx, "priorities",
                       Capitalize(savers[p].request.triage.priority))
       IN  IF ids = {} THEN
               savers' = [savers EXCEPT ![p].priority_id = 0,
                                        ![p].pc = "priority_default"]
           ELSE
               \E id \in ids :
                   savers' = [savers EXCEPT
                                 ![p].priority_id = id,
                                 ![p].pc = AfterLookups(savers[p].request)]
    /\ UNCHANGED <<db, next_request>>
    /\ UNCHANGED run_vars
    /\ UNCHANGED tool_vars

\* if not priority_id: SELECT id FROM priorities WHERE name = 'Medium'
SelectPriorityDefault(p) ==
    /\ savers[p].pc = "priority_default"
    /\ LET ids == SelectIdByName(db, savers[p].tx, "priorities", "Medium")
       IN  \E id \in IF ids = {} THEN {0} ELSE ids :
               savers' = [savers EXCEPT
                             ![p].priority_id = id,
                             ![p].pc = AfterLookups(savers[p].request)]
    /\ UNCHANGED <<db, next_request>>
    /\ UNCHANGED run_vars
    /\ UNCHANGED tool_vars

\* SELECT id FROM departments WHERE name ILIKE %s; fetchone() gives one of
\* the matching rows or None.
SelectDepartment(p) ==
    /\ savers[p].pc = "dept_select"
    /\ LET rows == SelectByName(db, savers[p].tx, "departments",
                                savers[p].request.classification.department)
       IN  IF rows = {} THEN
               savers' = [savers EXCEPT ![p].department_id = 0,
                                        ![p].pc = "dept_insert"]
           ELSE
               \E row \in rows :
                   savers' = [savers EXCEPT ![p].department_id = row.id,
                                            ![p].pc = "type_select"]
    /\ UNCHANGED <<db, next_request>>
    /\ UNCHANGED run_vars
    /\ UNCHANGED tool_vars

\* INSERT INTO departments (name, description) ... RETURNING id
InsertDepartment(p) ==
    /\ savers[p].pc = "dept_insert"
    /\ savers' =
          [savers EXCEPT
              ![p].tx.departments =
                  @ \cup {[id |-> savers[p].request_id,
                           name |-> savers[p].request.classification.department]},
              ![p].department_id = savers[p].request_id,
              ![p].pc = "type_select"]
    /\ UNCHANGED <<db, next_request>>
    /\ UNCHANGED run_vars
    /\ UNCHANGED tool_vars

\* SELECT id FROM request_types WHERE name ILIKE %s
SelectRequestType(p) ==
    /\ savers[p].pc = "type_select"
    /\ LET rows == SelectByName(db, savers[p].tx, "request_types",
                                savers[p].request.classification.request_type)
       IN  IF rows = {} THEN
               savers' = [savers EXCEPT ![p].request_type_id = 0,
                                        ![p].pc = "type_insert"]
           ELSE
               \E row \in rows :
                   savers' = [savers EXCEPT ![p].request_type_id = row.id,
                                            ![p].pc = "mapping_select"]
    /\ UNCHANGED <<db, next_request>>
    /\ UNCHANGED run_vars
    /\ UNCHANGED tool_vars

\* INSERT INTO request_types (name, description) ... RETURNING id
InsertRequestType(p) ==
    /\ savers[p].pc = "type_insert"
    /\ savers' =
          [savers EXCEPT
              ![p].tx.request_types =
                  @ \cup {[id |-> savers[p].request_id,
                           name |-> savers[p].request.classification.request_type]},
              ![p].request_type_id = savers[p].request_id,
              ![p].pc = "mapping_select"]
    /\ UNCHANGED <<db, next_request>>
    /\ UNCHANGED run_vars
    /\ UNCHANGED tool_vars

\* SELECT 1 FROM request_type_department_mapping WHERE request_type_id =
\* %s AND department_id = %s; mapping_exists decides whether the INSERT
\* follows.
SelectMapping(p) ==
    /\ savers[p].pc = "mapping_select"
    /\ LET mapping_exists ==
              \E row \in Visible(db, savers[p].tx,
                                 "request_type_department_mapping") :
                  /\ row.request_type_id = savers[p].request_type_id
                  /\ row.department_id = savers[p].department_id
       IN  savers' = [savers EXCEPT ![p].pc =
                         IF mapping_exists THEN "insert_request"
                         ELSE "mapping_insert"]
    /\ UNCHANGED <<db, next_request>>
    /\ UNCHANGED run_vars
    /\ UNCHANGED tool_vars

\* INSERT INTO request_type_department_mapping (...) VALUES (%s, %s, TRUE).
\* A mapping row is [row, request_type_id, department_id], row naming the
\* execution that inserted it, so the same pair inserted twice is two
\* rows.
InsertMapping(p) ==
    /\ savers[p].pc = "mapping_insert"
    /\ savers' =
          [savers EXCEPT
              ![p].tx.request_type_department_mapping =
                  @ \cup {[row |-> savers[p].request_id,
                           request_type_id |-> savers[p].request_type_id,
                           department_id |-> savers[p].department_id]},
              ![p].pc = "insert_request"]
    /\ UNCHANGED <<db, next_request>>
    /\ UNCHANGED run_vars
    /\ UNCHANGED tool_vars

\* INSERT INTO service_requests (...)
InsertServiceRequest(p) ==
    /\ savers[p].pc = "insert_request"
    /\ savers' =
          [savers EXCEPT
              ![p].tx.service_requests =
                  @ \cup {[id |-> savers[p].request_id,
                           department_id |-> savers[p].department_id,
                           request_type_id |-> savers[p].request_type_id,
                           status_id |-> savers[p].status_id,
                           priority_id |-> savers[p].priority_id,
                           is_emergency |->
                               savers[p].request.triage.is_emergency,
                           is_valid |->
                               savers[p].request.validation.is_valid]},
              ![p].pc = "insert_analysis"]
    /\ UNCHANGED <<db, next_request>>
    /\ UNCHANGED run_vars
    /\ UNCHANGED tool_vars

\* INSERT INTO ai_analysis_results (...) RETURNING id
InsertAnalysis(p) ==
    /\ savers[p].pc = "insert_analysis"
    /\ savers' =
          [savers EXCEPT
              ![p].tx.ai_analysis_results =
                  @ \cup {[service_request_id |-> savers[p].request_id]},
              ![p].pc = "commit"]
    /\ UNCHANGED <<db, next_request>>
    /\ UNCHANGED run_vars
    /\ UNCHANGED tool_vars

\* conn.commit()
Commit(p) ==
    /\ savers[p].pc = "commit"
    /\ db' = CommitTx(db, savers[p].tx)
    /\ savers' = [savers EXCEPT ![p].tx = EmptyTables,
                                ![p].outcome = "saved",
                                ![p].pc = "close"]
    /\ UNCHANGED next_request
    /\ UNCHANGED run_vars
    /\ UNCHANGED tool_vars

\* Any statement of the inner try block, the commit included, raises: the
\* except clause is entered.
StatementFails(p) ==
    /\ savers[p].pc \in StatementSteps
    /\ savers' = [savers EXCEPT ![p].failed_at = savers[p].pc,
                                ![p].error = DatabaseError,
                                ![p].pc = "rollback"]
    /\ UNCHANGED <<db, next_request>>
    /\ UNCHANGED run_vars
    /\ UNCHANGED tool_vars

\* except Exception: conn.rollback(); raise
RollbackTx(p) ==
    /\ savers[p].pc = "rollback"
    /\ db' = Rollback(db, savers[p].tx)
    /\ savers' = [savers EXCEPT ![p].tx = EmptyTables,
                                ![p].outcome = "raise",
                                ![p].pc = "close"]
    /\ UNCHANGED next_request
    /\ UNCHANGED run_vars
    /\ UNCHANGED tool_vars

\* finally: cursor.close(); conn.close()
Close(p) ==
    /\ savers[p].pc = "close"
    /\ savers' = [savers EXCEPT ![p].cursor = FALSE,
                                ![p].conn = FALSE,
                                ![p].pc = "finished"]
    /\ UNCHANGED <<db, next_request>>
    /\ UNCHANGED run_vars
    /\ UNCHANGED tool_vars

\* One step of one execution of save_to_database.
SaveStep(p) ==
    \/ GetDbConnection(p)
    \/ VerifyConnection(p)
    \/ OpenCursor(p)
    \/ SelectStatus(p)
    \/ SelectStatusDefault(p)
    \/ SelectPriority(p)
    \/ SelectPriorityDefault(p)
    \/ SelectDepartment(p)
    \/ InsertDepartment(p)
    \/ SelectRequestType(p)
    \/ InsertRequestType(p)
    \/ SelectMapping(p)
    \/ InsertMapping(p)
    \/ InsertServiceRequest(p)
    \/ InsertAnalysis(p)
    \/ Commit(p)
    \/ StatementFails(p)
    \/ RollbackTx(p)
    \/ Close(p)

Next ==
    \/ CallPipeline
    \/ CallProcessAndSave
    \/ PipelineClassify
    \/ PipelineRoute
    \/ PipelineExtract
    \/ PipelineReturn
    \/ SaveClassify
    \/ SaveRoute
    \/ SaveExtract
    \/ SaveConvert
    \/ Return

Spec == Init /\ [][Next]_vars

----------------------------------------------------------------------------
(* convert_to_processed_service_request applied to every
   PreClassificationResult and every value of request_data *)

\* Every PreClassificationResult the type admits: the recommendation field
\* is an independent field of the model.
PreClassificationResults ==
    [is_emergency : BOOLEAN, belongs_in_311 : BOOLEAN,
     reason : {ModelReason}, recommendation : RequestRecommendation]

\* The values of the request_data parameter: a ServiceRequest or None.
RequestDataValues ==
    {extract_311_request(r) : r \in ExtractorResponses} \cup {PyNone}

InitAssemble ==
    /\ entry = "convert_to_processed_service_request"
    /\ pc = "a_convert"
    /\ classification \in PreClassificationResults
    /\ request_data \in RequestDataValues
    /\ llm_result = NoLLMResult
    /\ response = NoResponse
    /\ extraction = NoResponse
    /\ processed_request = PyNone
    /\ result = NoResult
    /\ calls = <<>>
    /\ entry_recommendation = NoRecommendation
    /\ resolved = {}
    /\ runs = 0
    /\ db = EmptyTables
    /\ savers = [p \in Procs |-> IdleSaver]
    /\ next_request = 1
    /\ cli = IdleCli
    /\ migration = IdleMigration
    /\ importer = IdleImporter

\* convert_to_processed_service_request: the field values are computed
\* and ProcessedServiceRequest(...) is called with them; the exception of
\* its validator leaves the function, and no record is returned.
Assemble ==
    /\ pc = "a_convert"
    /\ convert_to_processed_service_request(classification, request_data)
          = [raised |-> "AttributeError"]
    /\ pc' = "a_attribute_error"
    /\ UNCHANGED <<entry, response, extraction, classification,
                   request_data, processed_request, llm_result, result,
                   calls, entry_recommendation, resolved, runs>>
    /\ UNCHANGED save_vars
    /\ UNCHANGED tool_vars

NextAssemble == Assemble

SpecAssemble == InitAssemble /\ [][NextAssemble]_vars

----------------------------------------------------------------------------
(* Properties *)

\* The stage f was called in the current run.
Called(f) == \E i \in 1..Len(calls) : calls[i] = f

\* The keys model_dump() of a ServiceRequest contributes to a result dict.
ExtractedKeys ==
    {"service_type", "service_subtype", "location_address",
     "location_details", "description", "priority", "additional_notes",
     "create_timestamp", "update_timestamp", "close_timestamp"}

\* The run ended with a dict built by pipeline_311 after extraction.
Processed == pc = "done" /\ result.status \in {"expedited", "normal"}

\* The run ended with one of the extraction-failure dicts of pipeline_311.
ExtractionFailed ==
    /\ pc = "done"
    /\ result.status = "error"
    /\ "message" \in DOMAIN result
    /\ result.message \in {ExpediteFailureMessage, NormalFailureMessage}

\* The section 4.2 table, cell by cell.
ResolverTable ==
    {<<TRUE, FALSE, REDIRECT_TO_911>>,
     <<TRUE, TRUE, EXPEDITE>>,
     <<FALSE, FALSE, REDIRECT_TO_OTHER_SERVICE>>,
     <<FALSE, TRUE, PROCESS_NORMALLY>>}

\* C1: every (is_emergency, belongs_in_311) pair the classifier has parsed,
\* in this run or an earlier one, was given the recommendation of the
\* section 4.2 table, and no pair was ever given two recommendations.
C1_ResolverTable ==
    /\ resolved \subseteq ResolverTable
    /\ \A t \in resolved : \A u \in resolved :
          (t[1] = u[1] /\ t[2] = u[2]) => t[3] = u[3]

\* All four cells of the table have been exercised.
C1_Witness == resolved = ResolverTable

\* C2: a classification returned by pre_classify_request, from a parsed
\* response or as the error default, has the recommendation its two flags
\* determine, whatever recommendation the model wrote; it is
\* REDIRECT_TO_911 exactly for an emergency outside 311.
C2_RecommendationDerived ==
    classification # PyNone =>
        /\ classification.recommendation =
               Resolver(classification.is_emergency,
                        classification.belongs_in_311)
        /\ (classification.recommendation = REDIRECT_TO_911
              <=> (classification.is_emergency
                   /\ ~classification.belongs_in_311))

\* The model wrote a recommendation that its own flags contradict, and
\* pre_classify_request returned.
C2_Witness ==
    /\ pc = "p_route"
    /\ response.kind = "parsed"
    /\ response.recommendation = PROCESS_NORMALLY
    /\ classification.recommendation = REDIRECT_TO_911

\* C3 (as claimed): in a run, the extractor is called if and only if the
\* recommendation the run was classified with is EXPEDITE or
\* PROCESS_NORMALLY.
C3_ExtractionIffRoutable ==
    /\ Called("extract_311_request") =>
          entry_recommendation \in {EXPEDITE, PROCESS_NORMALLY}
    /\ (pc = "done" /\ entry_recommendation \in {EXPEDITE, PROCESS_NORMALLY})
          => Called("extract_311_request")

\* C4: the status of a dict built by pipeline_311 and the classification
\* attached to it agree: emergency with REDIRECT_TO_911, non_311 with
\* REDIRECT_TO_OTHER_SERVICE, expedited with EXPEDITE, normal with
\* PROCESS_NORMALLY, extraction failure with one of the last two.
C4_StatusMatchesClassification ==
    pc = "done" =>
        /\ result.status = "emergency" =>
              /\ result.classification.recommendation = REDIRECT_TO_911
              /\ result.classification.is_emergency
        /\ result.status = "non_311" =>
              /\ result.classification.recommendation
                    = REDIRECT_TO_OTHER_SERVICE
              /\ ~result.classification.belongs_in_311
        /\ (Processed \/ ExtractionFailed) =>
              result.classification.recommendation
                  \in {EXPEDITE, PROCESS_NORMALLY}
        /\ Processed =>
              /\ (result.status = "expedited"
                    <=> result.classification.recommendation = EXPEDITE)
              /\ (result.status = "normal"
                    <=> result.classification.recommendation
                            = PROCESS_NORMALLY)

\* pipeline_311 returned the emergency dict.
C4_Witness ==
    /\ pc = "done"
    /\ result.status = "emergency"
    /\ result.classification.is_emergency

\* C5: an expedited result has priority URGENT whatever the extractor
\* returned, and the value is written after the extractor returned: no
\* result exists while extraction is pending, and the extractor's own
\* return value still holds the priority it chose.
C5_ExpediteOverride ==
    /\ pc \in {"p_extract", "p_return"} => result = NoResult
    /\ (pc = "done" /\ result.status = "expedited") =>
          /\ result.priority = URGENT
          /\ Called("extract_311_request")
          /\ request_data = extract_311_request(extraction)
          /\ request_data.priority \in ServiceRequestPriority

\* The extractor chose LOW and the run ended expedited.
C5_Witness ==
    /\ pc = "done"
    /\ result.status = "expedited"
    /\ extraction.kind = "parsed"
    /\ extraction.priority = "LOW"
    /\ request_data.priority = "LOW"

\* C6 (as claimed): the priority of an expedited or normal result is a
\* member of ServiceRequestPriority.
C6_PriorityInEnum ==
    Processed => result.priority \in ServiceRequestPriority

\* C7 (as claimed): when the classification call raises or returns no
\* parsed record, pre_classify_request returns the default
\* (is_emergency false, belongs_in_311 true, a non-empty reason,
\* PROCESS_NORMALLY) and the run goes on to extraction.
C7_ClassifierFailsClosed ==
    response.kind \in {"raise", "no_parsed"} =>
        /\ pc # "raised"
        /\ classification # PyNone
        /\ ~classification.is_emergency
        /\ classification.belongs_in_311
        /\ classification.reason # ""
        /\ classification.recommendation = PROCESS_NORMALLY
        /\ pc = "done" => Called("extract_311_request")

\* C8 (as claimed): when the extraction call raises or returns no parsed
\* record, extract_311_request returns None.
C8_ExtractorReturnsNone ==
    extraction.kind \in {"raise", "no_parsed"} => request_data = PyNone

\* C9: a run of pipeline_311 or process_and_save_request in which the
\* extractor was called and returned nothing ends with a failure dict:
\* status error, a message, the run's classification and no extracted
\* field; the dict has the same three keys on the EXPEDITE and on the
\* PROCESS_NORMALLY path.
C9_ExtractionFailureResult ==
    (/\ pc = "done"
     /\ Called("extract_311_request")
     /\ request_data = PyNone)
    => /\ result.status = "error"
       /\ DOMAIN result = {"status", "message", "classification"}
       /\ result.message \in {ExpediteFailureMessage, NormalFailureMessage,
                              SaveFailureMessage}
       /\ result.classification = classification
       /\ classification.recommendation \in {EXPEDITE, PROCESS_NORMALLY}
       /\ DOMAIN result \cap ExtractedKeys = {}

\* pipeline_311 returned the failure dict of the EXPEDITE branch with the
\* classification attached.
C9_Witness ==
    /\ entry = "pipeline_311"
    /\ pc = "done"
    /\ extraction = NullExtraction
    /\ request_data = PyNone
    /\ classification.recommendation = EXPEDITE
    /\ result.message = ExpediteFailureMessage
    /\ result.classification.is_emergency

\* C10 (as claimed): no run ends with an exception leaving the entry
\* point.
C10_NothingRaised == pc # "raised"

\* The number of calls of the stage f in the current run.
CallCount(f) == Cardinality({i \in 1..Len(calls) : calls[i] = f})

\* C11 (as claimed): a run calls the classifier exactly once, and the one
\* result it returns carries that classification.
C11_ClassifiedOnce ==
    /\ CallCount("pre_classify_request") <= 1
    /\ pc = "done" =>
          /\ CallCount("pre_classify_request") = 1
          /\ "classification" \in DOMAIN result =>
                result.classification.recommendation = entry_recommendation

\* C12: every extractor call of a run comes directly after a classifier
\* call that returned, and the recommendation computed from it routes to
\* extraction; no extractor call is pending or made while the run has no
\* classification.
C12_ExtractionAfterClassification ==
    /\ \A i \in 1..Len(calls) :
          calls[i] = "extract_311_request" =>
              /\ i > 1
              /\ calls[i - 1] = "pre_classify_request"
    /\ (pc \in {"p_extract", "s_extract"}
          \/ Called("extract_311_request")) =>
              /\ classification # PyNone
              /\ classification.recommendation
                    \in {EXPEDITE, PROCESS_NORMALLY}

\* The extractor has been called in a run of process_and_save_request.
C12_Witness ==
    /\ entry = "process_and_save_request"
    /\ pc = "s_convert"
    /\ calls = <<"pre_classify_request", "extract_311_request">>

\* C13: a run calls the extractor at most once, also when the extraction
\* capability failed.
C13_ExtractionNotRetried == CallCount("extract_311_request") <= 1

\* A run ended after an extraction call that raised.
C13_Witness ==
    /\ pc = "done"
    /\ extraction.kind = "raise"
    /\ CallCount("extract_311_request") = 1

----------------------------------------------------------------------------
(* save_to_database executed by independent processes on one database *)

\* Department names the extractor can hand over: a name, the same name in
\* another case, and a name holding the one-character wildcard of LIKE.
SaveDepartmentNames == {"DPW", "dpw", "D_W"}

\* The values of the request parameter of save_to_database, by the
\* fields the function reads: valid requests naming each
\* department, and an invalid request without classification.  They are
\* given to the function directly; no caller in the repository reaches
\* it with a record.
SaveRequests ==
    {[summary |-> "Large pothole",
      triage |-> [is_emergency |-> FALSE, confidence |-> 85,
                  reasoning |-> DefaultReason, priority |-> "medium"],
      validation |-> [is_valid |-> TRUE, confidence |-> 85,
                      reasoning |-> DefaultReason,
                      invalid_reason |-> NoneStr],
      classification |-> [request_type |-> "Pothole", department |-> name,
                          confidence |-> 80],
      geocoding |-> PyNone,
      status |-> "new"] : name \in SaveDepartmentNames}
    \cup
    {[summary |-> "Large pothole",
      triage |-> [is_emergency |-> FALSE, confidence |-> 85,
                  reasoning |-> DefaultReason, priority |-> "medium"],
      validation |-> [is_valid |-> FALSE, confidence |-> 85,
                      reasoning |-> DefaultReason,
                      invalid_reason |-> DefaultReason],
      classification |-> PyNone,
      geocoding |-> PyNone,
      status |-> "invalid"]}

\* The database a save can meet: no rows at all, or the statuses and
\* priorities tables holding their default rows beside a department and
\* a request type without a mapping.
SaveSeeds ==
    {EmptyTables,
     [EmptyTables EXCEPT !.statuses = {[id |-> 201, name |-> "New"]},
                         !.priorities = {[id |-> 301, name |-> "Medium"]},
                         !.departments = {[id |-> 100, name |-> "DPW"]},
                         !.request_types =
                             {[id |-> 101, name |-> "Pothole"]}]}

InitSave ==
    /\ entry = "save_to_database"
    /\ pc = "idle"
    /\ response = NoResponse
    /\ extraction = NoResponse
    /\ classification = PyNone
    /\ request_data = PyNone
    /\ processed_request = PyNone
    /\ llm_result = NoLLMResult
    /\ result = NoResult
    /\ calls = <<>>
    /\ entry_recommendation = NoRecommendation
    /\ resolved = {}
    /\ runs = 0
    /\ db \in SaveSeeds
    /\ savers = [p \in Procs |-> IdleSaver]
    /\ next_request = 1
    /\ cli \in {IdleCli,
                [IdleCli EXCEPT
                    !.missing_db_params = {"DB_HOST", "DB_PASSWORD"}]}
    /\ migration = IdleMigration
    /\ importer = IdleImporter

\* A process calls save_to_database(request); uuid.uuid4() gives the
\* execution a fresh request id.
StartSave(p) ==
    /\ savers[p].pc = "idle"
    /\ next_request <= MaxSaves
    /\ \E request \in SaveRequests :
         savers' = [savers EXCEPT ![p] =
                       [IdleSaver EXCEPT !.pc = "connect",
                                         !.request = request,
                                         !.request_id = next_request]]
    /\ next_request' = next_request + 1
    /\ UNCHANGED db
    /\ UNCHANGED run_vars
    /\ UNCHANGED tool_vars

\* save_to_database has returned or raised; the process is free for its
\* next call.
FinishSave(p) ==
    /\ savers[p].pc = "finished"
    /\ savers' = [savers EXCEPT ![p] = IdleSaver]
    /\ UNCHANGED <<db, next_request>>
    /\ UNCHANGED run_vars
    /\ UNCHANGED tool_vars

NextSave ==
    \/ \E p \in Procs : StartSave(p)
    \/ \E p \in Procs : SaveStep(p)
    \/ \E p \in Procs : FinishSave(p)

SpecSave == InitSave /\ [][NextSave]_vars

----------------------------------------------------------------------------
(* import_service_requests.py: the import beside a save *)

batch_size == 500

\* {row["name"].lower(): row["id"] for row in rows}: the dicts the
\* comprehension can give, as the rows they keep.  Of the rows whose
\* names fold to one key the last fetched stays, and the SELECT has no
\* ORDER BY.
DictOf(rows) ==
    {m \in SUBSET rows :
        /\ \A r \in rows : \E q \in m : FoldName(q.name) = FoldName(r.name)
        /\ \A q1, q2 \in m :
              FoldName(q1.name) = FoldName(q2.name) => q1 = q2}

\* map.get(key.lower()): the id under the key, or None (0).
Get(map, key) ==
    IF \E q \in map : FoldName(q.name) = FoldName(key)
    THEN (CHOOSE q \in map : FoldName(q.name) = FoldName(key)).id
    ELSE 0

\* fetch_reference_data: one SELECT per step, each read into its map; a
\* SELECT that raises ends main, nothing is caught.
FetchReferenceData ==
    /\ importer.pc \in {"idle", "fetch_request_types", "fetch_statuses"}
    /\ \/ importer' = [importer EXCEPT !.pc = "done", !.outcome = "raise"]
       \/ CASE importer.pc = "idle" ->
               \E m \in DictOf(db.departments) :
                  importer' = [importer EXCEPT !.department_map = m,
                                               !.pc = "fetch_request_types"]
            [] importer.pc = "fetch_request_types" ->
               \E m \in DictOf(db.request_types) :
                  importer' = [importer EXCEPT !.request_type_map = m,
                                               !.pc = "fetch_statuses"]
            [] OTHER ->
               \E m \in DictOf(db.statuses) :
                  importer' = [importer EXCEPT !.status_map = m,
                                               !.pc = "start"]
    /\ UNCHANGED <<run_vars, save_vars, cli, migration>>

\* Rows of the CSV file, by the columns transform_service_request reads
\* for the columns the model keeps; sla_within_day stands for an
\* sla_target_dt less than 24 hours after open_dt.
CsvRows ==
    <<[subject |-> "DPW Department", type |-> "", case_title |-> "Pothole",
       case_status |-> "Open", sla_within_day |-> FALSE],
      [subject |-> "Unknown", type |-> "Pothole", case_title |-> "Unknown",
       case_status |-> "New", sla_within_day |-> TRUE]>>

\* transform_service_request, by the columns the model keeps.
transform_service_request(row, department_map, request_type_map, status_map) ==
    LET dept_name == IF row.subject = "DPW Department" THEN "DPW"
                     ELSE row.subject
        by_type == Get(request_type_map, row.type)
        by_status == Get(status_map, row.case_status)
    IN  [department_id |-> Get(department_map, dept_name),
         request_type_id |-> IF by_type = 0
                             THEN Get(request_type_map, row.case_title)
                             ELSE by_type,
         status_id |-> IF by_status = 0 THEN Get(status_map, "new")
                       ELSE by_status,
         priority_id |-> 0,
         is_emergency |-> row.sla_within_day,
         is_valid |-> TRUE]

\* random.sample(transformed_data, sample_size): the lists of sample_size
\* entries at different positions, in any order.
RandomSamples(transformed_data, sample_size) ==
    {[i \in 1..sample_size |-> transformed_data[positions[i]]] :
        positions \in
            {f \in [1..sample_size -> 1..Len(transformed_data)] :
                \A i, j \in 1..sample_size : i # j => f[i] # f[j]}}

\* The service_requests rows one copy_records_to_table call adds for the
\* batch: the model's columns of each request, and an id the database
\* generates (a negative number, apart from the ids save_to_database
\* chooses).
BatchRows(data_to_insert, batch_num) ==
    LET start_idx == batch_num * batch_size
        end_idx == IF (batch_num + 1) * batch_size < Len(data_to_insert)
                   THEN (batch_num + 1) * batch_size
                   ELSE Len(data_to_insert)
    IN  {[id |-> 0 - i] @@ data_to_insert[i] : i \in (start_idx + 1)..end_idx}

\* process_csv_data transforms the rows of a file with no row or two,
\* and sample_and_insert_data is called with sample_size None (0), 1 or
\* 2: the sample is drawn and the BEGIN of the transaction block is
\* served, or it raises and the except clause prints the error and
\* returns.
StartImport ==
    /\ importer.pc = "start"
    /\ \E rows \in {<<>>, CsvRows}, sample_size \in {0, 1, 2} :
         LET transformed_data ==
               [i \in 1..Len(rows) |->
                   transform_service_request(
                       rows[i], importer.department_map,
                       importer.request_type_map, importer.status_map)]
         IN  \E data_to_insert \in
                   IF sample_size # 0 /\ sample_size < Len(transformed_data)
                   THEN RandomSamples(transformed_data, sample_size)
                   ELSE {transformed_data} :
                \/ importer' = [importer EXCEPT
                                   !.pc = "copy",
                                   !.data_to_insert = data_to_insert]
                \/ importer' = [importer EXCEPT
                                   !.pc = "done",
                                   !.data_to_insert = data_to_insert,
                                   !.outcome = "rolled_back"]
    /\ UNCHANGED <<run_vars, save_vars, cli, migration>>

\* One pass of the batch loop: await conn.copy_records_to_table(...), or
\* the end of the loop.
ImportCopyBatch ==
    /\ importer.pc = "copy"
    /\ IF importer.batch_num >=
             (Len(importer.data_to_insert) + batch_size - 1) \div batch_size
       THEN
          importer' = [importer EXCEPT !.pc = "commit"]
       ELSE
          importer' =
             [importer EXCEPT
                 !.tx = @ \cup BatchRows(importer.data_to_insert,
                                         importer.batch_num),
                 !.batch_num = @ + 1]
    /\ UNCHANGED <<run_vars, save_vars, cli, migration>>

\* The transaction block is left normally: the rows are committed.
ImportCommit ==
    /\ importer.pc = "commit"
    /\ db' = [db EXCEPT !.service_requests = @ \cup importer.tx]
    /\ importer' = [importer EXCEPT !.pc = "done", !.tx = {},
                                    !.outcome = "committed"]
    /\ UNCHANGED <<run_vars, savers, next_request, cli, migration>>

\* A copy raises and the transaction block has the ROLLBACK to send; or
\* the COMMIT raises, nothing was committed and the except clause prints
\* the error and returns.
ImportFails ==
    /\ importer.pc \in {"copy", "commit"}
    /\ importer' = IF importer.pc = "commit"
                   THEN [importer EXCEPT !.pc = "done", !.tx = {},
                                         !.outcome = "rolled_back"]
                   ELSE [importer EXCEPT !.pc = "rollback"]
    /\ UNCHANGED <<run_vars, save_vars, cli, migration>>

\* The ROLLBACK the transaction block sends on its way out is served; the
\* except clause prints the error and returns.
ImportRollback ==
    /\ importer.pc = "rollback"
    /\ importer' = [importer EXCEPT !.pc = "done", !.tx = {},
                                    !.outcome = "rolled_back"]
    /\ UNCHANGED <<run_vars, save_vars, cli, migration>>

\* One process saving while the import runs on its own connection.
NextImport ==
    \/ StartSave(1)
    \/ SaveStep(1)
    \/ FinishSave(1)
    \/ FetchReferenceData
    \/ StartImport
    \/ ImportCopyBatch
    \/ ImportCommit
    \/ ImportFails
    \/ ImportRollback

SpecImport == InitSave /\ [][NextImport]_vars

----------------------------------------------------------------------------
(* pipeline.py: main, the command line tool *)

InitMain ==
    /\ cli \in [pc : {"m_env"}, api_key : BOOLEAN, args : {"parsed", "usage_error", "help"},
                save_to_db : BOOLEAN, missing_db_params : SUBSET DbParams,
                printed : {FALSE}, left_by : {"none"}, exit_code : {-1}]
    /\ entry = "none"
    /\ pc = "idle"
    /\ response = NoResponse
    /\ extraction = NoResponse
    /\ classification = PyNone
    /\ request_data = PyNone
    /\ processed_request = PyNone
    /\ llm_result = NoLLMResult
    /\ result = NoResult
    /\ calls = <<>>
    /\ entry_recommendation = NoRecommendation
    /\ resolved = {}
    /\ runs = 0
    /\ db = EmptyTables
    /\ savers = [p \in Procs |-> IdleSaver]
    /\ next_request = 1
    /\ migration = IdleMigration
    /\ importer = IdleImporter

\* if not os.environ.get("OPENAI_API_KEY"): ... return 1
MainCheckApiKey ==
    /\ cli.pc = "m_env"
    /\ cli' = IF cli.api_key THEN [cli EXCEPT !.pc = "m_args"]
              ELSE [cli EXCEPT !.pc = "m_exit", !.left_by = "return",
                               !.exit_code = 1]
    /\ UNCHANGED <<run_vars, save_vars, migration, importer>>

\* parser.parse_args(): argparse raises SystemExit(2) when the command
\* line does not parse, and prints the usage and raises SystemExit(0) for
\* -h / --help.
MainParseArgs ==
    /\ cli.pc = "m_args"
    /\ cli' = IF cli.args = "parsed" THEN [cli EXCEPT !.pc = "m_db"]
              ELSE [cli EXCEPT !.pc = "m_exit", !.left_by = "SystemExit",
                               !.exit_code = IF cli.args = "help" THEN 0
                                             ELSE 2]
    /\ UNCHANGED <<run_vars, save_vars, migration, importer>>

\* main going on to the pipeline whatever database parameters are set.
MainCheckDbSkipped ==
    /\ cli.pc = "m_db"
    /\ cli' = [cli EXCEPT !.pc = "m_run"]
    /\ UNCHANGED <<run_vars, save_vars, migration, importer>>

\* if args.save_to_db: ... if missing_db_params: ... return 1
MainCheckDb ==
    /\ cli.pc = "m_db"
    /\ cli' = IF cli.save_to_db /\ cli.missing_db_params # {}
              THEN [cli EXCEPT !.pc = "m_exit", !.left_by = "return",
                               !.exit_code = 1]
              ELSE [cli EXCEPT !.pc = "m_run"]
    /\ UNCHANGED <<run_vars, save_vars, migration, importer>>

\* result = process_and_save_request(args.message) with --save-to-db,
\* result = pipeline_311(args.message) without.
MainRun ==
    /\ cli.pc = "m_run"
    /\ pc = "idle"
    /\ cli' = [cli EXCEPT !.pc = "m_wait"]
    /\ entry' = IF cli.save_to_db THEN "process_and_save_request"
                ELSE "pipeline_311"
    /\ pc' = IF cli.save_to_db THEN "s_classify" ELSE "p_classify"
    /\ runs' = runs + 1
    /\ UNCHANGED <<response, extraction, classification, request_data,
                   processed_request, llm_result, result, calls,
                   entry_recommendation, resolved>>
    /\ UNCHANGED <<save_vars, migration, importer>>

\* print(json.dumps(result, indent=2)); return 0 - or one of the two
\* except clauses: return 1.
MainReturn ==
    /\ cli.pc = "m_wait"
    /\ pc \in {"done", "raised", "raised_validation"}
    /\ cli' = IF pc = "done"
              THEN [cli EXCEPT !.pc = "m_exit", !.printed = TRUE,
                               !.left_by = "return", !.exit_code = 0]
              ELSE [cli EXCEPT !.pc = "m_exit", !.left_by = "return",
                               !.exit_code = 1]
    /\ UNCHANGED <<run_vars, save_vars, migration, importer>>

NextMain ==
    \/ MainCheckApiKey
    \/ MainParseArgs
    \/ MainCheckDb
    \/ MainRun
    \/ MainReturn
    \/ PipelineClassify
    \/ PipelineRoute
    \/ PipelineExtract
    \/ PipelineReturn
    \/ SaveClassify
    \/ SaveRoute
    \/ SaveExtract
    \/ SaveConvert

SpecMain == InitMain /\ [][NextMain]_vars

----------------------------------------------------------------------------
(* migrate_311_categories.py: update_database on one connection *)

\* The contents of the database before the migration: nothing, or one row
\* in every table.
PreMigrationTables ==
    {EmptyTables,
     [t \in Tables |->
        CASE t \in {"departments", "request_types", "priorities",
                    "statuses"} -> {[id |-> 100, name |-> "old"]}
          [] t = "request_type_department_mapping" ->
                {[row |-> 100, request_type_id |-> 100,
                  department_id |-> 100]}
          [] t = "service_requests" ->
                {[id |-> 100, department_id |-> 100,
                  request_type_id |-> 100, status_id |-> 100,
                  priority_id |-> 100, is_emergency |-> FALSE,
                  is_valid |-> TRUE]}
          [] OTHER -> {[service_request_id |-> 100]}]}

\* The argument lists, by the names of their entries.
DepartmentLists == {<<>>, <<"Public Works">>,
                    <<"Public Works", "Transportation">>}
RequestTypeLists == {<<>>, <<"Pothole">>,
                     <<"Pothole", "Street Light Outage">>,
                     <<"Pothole", "Pothole">>, <<"Noise Complaint">>,
                     <<"Other">>}
StatusLists == {<<"Open">>, <<"Open", "Closed">>}

\* update_database has been called.
InitMigrate ==
    /\ db \in PreMigrationTables
    /\ \E departments \in DepartmentLists,
          request_types \in RequestTypeLists, statuses \in StatusLists :
         migration = [IdleMigration EXCEPT !.pc = "begin",
                                           !.departments = departments,
                                           !.request_types = request_types,
                                           !.statuses = statuses,
                                           !.index = 1,
                                           !.before = db,
                                           !.view = db]
    /\ entry = "update_database"
    /\ pc = "idle"
    /\ response = NoResponse
    /\ extraction = NoResponse
    /\ classification = PyNone
    /\ request_data = PyNone
    /\ processed_request = PyNone
    /\ llm_result = NoLLMResult
    /\ result = NoResult
    /\ calls = <<>>
    /\ entry_recommendation = NoRecommendation
    /\ resolved = {}
    /\ runs = 0
    /\ savers = [p \in Procs |-> IdleSaver]
    /\ next_request = 1
    /\ cli = IdleCli
    /\ importer = IdleImporter

\* The statement issued, as the connection receives it.
Statement(op, table) == [op |-> op, table |-> table]

\* async with conn.transaction(): the BEGIN is served, or it raises and
\* the except clause prints the error and returns.
MigrateBegin ==
    /\ migration.pc = "begin"
    /\ \/ migration' = [migration EXCEPT !.pc = "delete"]
       \/ migration' = [migration EXCEPT !.pc = "done",
                                         !.outcome = "rolled_back"]
    /\ UNCHANGED <<run_vars, save_vars, cli, importer>>

\* await conn.execute("DELETE FROM ...")
MigrateDelete ==
    /\ migration.pc = "delete"
    /\ LET table == DeleteOrder[migration.index]
       IN  migration' =
             [migration EXCEPT
                 !.view[table] = {},
                 !.log = Append(@, Statement("DELETE", table)),
                 !.index = IF @ = Len(DeleteOrder) THEN 1 ELSE @ + 1,
                 !.pc = IF migration.index = Len(DeleteOrder)
                        THEN "departments" ELSE "delete"]
    /\ UNCHANGED <<run_vars, save_vars, cli, importer>>

\* One pass of a for loop over an argument list: the INSERT for the entry
\* at the index, or the end of the loop.
MigrateInsert(table, next) ==
    /\ migration.pc = table
    /\ IF migration.index > Len(migration[table]) THEN
          migration' = [migration EXCEPT !.pc = next, !.index = 1]
       ELSE
          migration' =
             [migration EXCEPT
                 !.view[table] =
                     @ \cup {[id |-> migration.index,
                              name |-> migration[table][migration.index]]},
                 !.log = Append(@, Statement("INSERT", table)),
                 !.index = @ + 1]
    /\ UNCHANGED <<run_vars, save_vars, cli, importer>>

MigrateInsertDepartment == MigrateInsert("departments", "request_types")
MigrateInsertRequestType == MigrateInsert("request_types", "statuses")
MigrateInsertStatus ==
    MigrateInsert("statuses", "request_type_department_mapping")

\* The ids a fetchval by name can return: the id of a matching row, or
\* None (0) when there is none.
FetchIdByName(rows, name) ==
    IF {r \in rows : r.name = name} = {} THEN {0}
    ELSE {r.id : r \in {q \in rows : q.name = name}}

\* The head of the mapping loop and the first await of a pass:
\* dept_id = await conn.fetchval("SELECT id FROM departments WHERE name =
\* $1", dept_name), or the end of the loop.
MigrateSelectDepartment ==
    /\ migration.pc = "request_type_department_mapping"
    /\ IF migration.index > Len(migration.request_types) THEN
          migration' = [migration EXCEPT !.pc = "commit"]
       ELSE
          \E id \in FetchIdByName(
                        migration.view.departments,
                        DepartmentFor(
                            migration.request_types[migration.index])) :
             migration' = [migration EXCEPT !.dept_id = id,
                                            !.pc = "mapping_request_type"]
    /\ UNCHANGED <<run_vars, save_vars, cli, importer>>

\* rt_id = await conn.fetchval("SELECT id FROM request_types WHERE name =
\* $1", rt["name"]); if dept_id and rt_id: the INSERT follows, otherwise
\* the next pass.
MigrateSelectRequestType ==
    /\ migration.pc = "mapping_request_type"
    /\ \E id \in FetchIdByName(migration.view.request_types,
                                migration.request_types[migration.index]) :
         migration' =
            IF migration.dept_id # 0 /\ id # 0
            THEN [migration EXCEPT !.rt_id = id, !.pc = "mapping_insert"]
            ELSE [migration EXCEPT
                     !.rt_id = id, !.index = @ + 1,
                     !.pc = "request_type_department_mapping"]
    /\ UNCHANGED <<run_vars, save_vars, cli, importer>>

\* await conn.execute("INSERT INTO request_type_department_mapping ...",
\* rt_id, dept_id)
MigrateInsertMapping ==
    /\ migration.pc = "mapping_insert"
    /\ migration' =
          [migration EXCEPT
              !.view.request_type_department_mapping =
                  @ \cup {[row |-> migration.index,
                           request_type_id |-> migration.rt_id,
                           department_id |-> migration.dept_id]},
              !.log = Append(@, Statement("INSERT",
                                   "request_type_department_mapping")),
              !.index = @ + 1,
              !.pc = "request_type_department_mapping"]
    /\ UNCHANGED <<run_vars, save_vars, cli, importer>>

\* The transaction block is left normally: the transaction commits.
MigrateCommit ==
    /\ migration.pc = "commit"
    /\ db' = migration.view
    /\ migration' = [migration EXCEPT !.pc = "done",
                                      !.outcome = "committed"]
    /\ UNCHANGED <<run_vars, savers, next_request, cli, importer>>

\* An awaited statement raises and the transaction block has the
\* ROLLBACK to send; or the COMMIT raises, nothing was committed and the
\* except clause prints the error and returns.
MigrateFails ==
    /\ migration.pc \in {"delete", "departments", "request_types",
                         "statuses", "request_type_department_mapping",
                         "mapping_request_type", "mapping_insert",
                         "commit"}
    /\ migration' = IF migration.pc = "commit"
                    THEN [migration EXCEPT !.pc = "done", !.view = db,
                                           !.outcome = "rolled_back"]
                    ELSE [migration EXCEPT !.pc = "rollback"]
    /\ UNCHANGED <<run_vars, save_vars, cli, importer>>

\* Statements that were not run in a transaction: what they wrote stays.
MigrateRollbackKeepsWrites ==
    /\ migration.pc = "rollback"
    /\ db' = migration.view
    /\ migration' = [migration EXCEPT !.pc = "done",
                                      !.outcome = "rolled_back"]
    /\ UNCHANGED <<run_vars, savers, next_request, cli, importer>>

\* The ROLLBACK the transaction block sends on its way out is served; the
\* except clause prints the error and returns.
MigrateRollback ==
    /\ migration.pc = "rollback"
    /\ migration' = [migration EXCEPT !.pc = "done", !.view = db,
                                      !.outcome = "rolled_back"]
    /\ UNCHANGED <<run_vars, save_vars, cli, importer>>

NextMigrate ==
    \/ MigrateBegin
    \/ MigrateDelete
    \/ MigrateInsertDepartment
    \/ MigrateInsertRequestType
    \/ MigrateInsertStatus
    \/ MigrateSelectDepartment
    \/ MigrateSelectRequestType
    \/ MigrateInsertMapping
    \/ MigrateCommit
    \/ MigrateFails
    \/ MigrateRollback

SpecMigrate == InitMigrate /\ [][NextMigrate]_vars

\* The call of convert_to_processed_service_request is over.
AssemblyEnded ==
    entry = "convert_to_processed_service_request" /\ pc # "a_convert"

\* C14 (as claimed): for every pre-classification, with or without
\* extracted data, convert_to_processed_service_request produces a
\* record, and a record with validation.is_valid true carries a
\* classification.
C14_ValidHasClassification ==
    AssemblyEnded =>
        /\ processed_request # PyNone
        /\ processed_request.validation.is_valid
              => processed_request.classification # PyNone

\* C15 (as claimed): the record convert_to_processed_service_request
\* produces is invalid (is_valid false, status invalid, no
\* classification) exactly when belongs_in_311 is false or the
\* recommendation is REDIRECT_TO_911; otherwise it is valid with status
\* new.
C15_InvalidIffNot311OrEmergencyRedirect ==
    AssemblyEnded =>
        /\ processed_request # PyNone
        /\ IF ~classification.belongs_in_311
              \/ classification.recommendation = "REDIRECT_TO_911"
           THEN /\ ~processed_request.validation.is_valid
                /\ processed_request.status = "invalid"
                /\ processed_request.classification = PyNone
           ELSE /\ processed_request.validation.is_valid
                /\ processed_request.status = "new"

\* C16 (as claimed): a valid request assembled without extracted data
\* gets a record with the placeholder classification (department
\* Unknown, request type General Request) and a confidence below the
\* review threshold, and requires_human_review is true for it at the
\* overall confidence 0.85 process_and_save_request gives.
C16_PlaceholderNeedsReview ==
    (/\ AssemblyEnded
     /\ request_data = PyNone
     /\ classification.belongs_in_311
     /\ classification.recommendation # "REDIRECT_TO_911")
    => /\ processed_request # PyNone
       /\ processed_request.classification.department = "Unknown"
       /\ processed_request.classification.request_type = "General Request"
       /\ processed_request.classification.confidence < 75
       /\ requires_human_review(85, processed_request)

\* A run of process_and_save_request is over in which the classifier
\* answered EXPEDITE or PROCESS_NORMALLY and the extractor returned a
\* parsed record.
BothStagesSucceeded ==
    /\ entry = "process_and_save_request"
    /\ pc \in {"done", "raised", "raised_validation"}
    /\ entry_recommendation \in {EXPEDITE, PROCESS_NORMALLY}
    /\ extraction.kind = "parsed"

\* C19 (as claimed): once classification and extraction have succeeded
\* process_and_save_request does not raise: it returns a dict that
\* reports the state of the save, and a dict with database_status error
\* still holds the computed work a retry of the save needs: the
\* department, the request type and the priority.
C19_SaveFailureKeepsWork ==
    BothStagesSucceeded =>
        /\ pc = "done"
        /\ "database_status" \in DOMAIN result
        /\ result.database_status = "error"
              => {"department", "request_type", "priority"}
                     \subseteq DOMAIN result

\* The request ids that have a row in a table of the database.
RequestIds(table) == {row.id : row \in db[table]}

\* C18: at every moment of every execution of save_to_database, failed at
\* any statement or not, the database holds for a request id of
\* save_to_database both its service_requests row and its
\* ai_analysis_results row or neither; a department or request type row
\* a save inserted is in the database only with the rows of that save,
\* and a save that raised has left no row.
C18_SaveAtomic ==
    /\ {id \in RequestIds("service_requests") : id > 0} =
           {row.service_request_id : row \in db.ai_analysis_results}
    /\ \A t \in {"departments", "request_types"} :
          {id \in RequestIds(t) : id < next_request}
              \subseteq RequestIds("service_requests")
    /\ \A p \in Procs :
          savers[p].outcome = "raise" =>
              \A t \in {"departments", "request_types", "service_requests"} :
                  savers[p].request_id \notin RequestIds(t)

\* A save that inserted a department, a request type and both rows of its
\* request and then failed at the commit, beside a save that committed.
C18_Witness ==
    /\ \E p \in Procs :
          /\ savers[p].pc = "finished"
          /\ savers[p].outcome = "raise"
          /\ savers[p].failed_at = "commit"
          /\ savers[p].department_id = savers[p].request_id
          /\ savers[p].request_type_id = savers[p].request_id
    /\ db.service_requests # {}
    /\ db.departments # {}

\* The rows of a reference table that carry the name, whatever the case.
RowsNamed(table, name) ==
    {row \in db[table] : FoldName(row.name) = FoldName(name)}

\* C20 (as claimed): after any executions of save_to_database, sequential
\* or interleaved in separate transactions, no department or request type
\* name has two reference rows, and the department and request type
\* named by a record that was saved each have exactly one row.
C20_OneReferenceRowPerName ==
    /\ \A t \in {"departments", "request_types"} :
          \A row \in db[t] : Cardinality(RowsNamed(t, row.name)) = 1
    /\ \A p \in Procs :
          (/\ savers[p].pc = "finished"
           /\ savers[p].outcome = "saved"
           /\ savers[p].request.classification # PyNone)
          => /\ Cardinality(RowsNamed("departments",
                       savers[p].request.classification.department)) = 1
             /\ Cardinality(RowsNamed("request_types",
                       savers[p].request.classification.request_type)) = 1

\* C21 (as claimed): process_and_save_request returns a dict for a valid
\* request that was classified and extracted, and the dict holds the
\* keys id, category, location and description.
C21_SavedResultKeys ==
    BothStagesSucceeded =>
        /\ pc = "done"
        /\ {"id", "category", "location", "description"}
               \subseteq DOMAIN result

\* The configuration main refuses: no OPENAI_API_KEY, or --save-to-db
\* with a database parameter missing.
ConfigurationFailure ==
    \/ ~cli.api_key
    \/ cli.args = "parsed" /\ cli.save_to_db /\ cli.missing_db_params # {}

\* C22: with OPENAI_API_KEY missing, or --save-to-db given and a database
\* parameter missing, main never invokes the classifier, the extractor or
\* save_to_database and returns 1; main returns 0 only after it printed
\* the dict a pipeline returned.
C22_MainExitCodes ==
    /\ (cli.pc # "idle" /\ ConfigurationFailure)
          => /\ calls = <<>>
             /\ pc = "idle"
             /\ \A p \in Procs : savers[p].pc = "idle"
             /\ cli.pc = "m_exit" =>
                   cli.left_by = "return" /\ cli.exit_code = 1
    /\ (cli.left_by = "return" /\ cli.exit_code = 0)
          => /\ cli.printed
             /\ pc = "done"
             /\ result # NoResult

\* main returned 1 for --save-to-db with only DB_PASSWORD missing.
C22_Witness ==
    /\ cli.pc = "m_exit"
    /\ cli.api_key
    /\ cli.save_to_db
    /\ cli.missing_db_params = {"DB_PASSWORD"}
    /\ cli.left_by = "return"
    /\ cli.exit_code = 1

\* The statements of the log with the given operation, in order.
Issued(op) == SelectSeq(migration.log, LAMBDA st : st.op = op)

\* The number of INSERT statements issued on a table.
Inserts(table) ==
    Cardinality({i \in 1..Len(migration.log) :
                    migration.log[i] = Statement("INSERT", table)})

\* C23: the DELETE statements update_database issues come first and in
\* the order ai_analysis_results, request_history, service_requests,
\* request_type_department_mapping, request_types, departments,
\* priorities, statuses; no INSERT is issued before the eighth DELETE; a
\* run in which no statement failed has issued exactly 8 DELETEs, one
\* INSERT per department, per request type and per status, and at most
\* one mapping INSERT per request type.
C23_DeleteThenInsert ==
    /\ \A i \in 1..Len(migration.log) :
          IF i <= 8
          THEN migration.log[i] =
                 Statement("DELETE",
                    <<"ai_analysis_results", "request_history",
                      "service_requests",
                      "request_type_department_mapping", "request_types",
                      "departments", "priorities", "statuses">>[i])
          ELSE migration.log[i].op = "INSERT"
    /\ migration.outcome = "committed"
          => /\ Len(Issued("DELETE")) = 8
             /\ Inserts("departments") = Len(migration.departments)
             /\ Inserts("request_types") = Len(migration.request_types)
             /\ Inserts("statuses") = Len(migration.statuses)
             /\ Inserts("request_type_department_mapping")
                   <= Len(migration.request_types)

\* The run of test_update_database's lists to the end, with a request
\* type that found no department.
C23_Witness ==
    /\ migration.outcome = "committed"
    /\ migration.departments = <<"Public Works">>
    /\ migration.request_types = <<"Pothole", "Street Light Outage">>
    /\ Inserts("request_type_department_mapping") = 1
    /\ Len(migration.log) = 8 + 1 + 2 + Len(migration.statuses) + 1

\* The tables update_database writes rows to: the three it is given a
\* list for and the mapping between two of them.
CategoryTables ==
    {"departments", "request_types", "statuses",
     "request_type_department_mapping"}

\* C24: a migration that failed leaves every table with its contents
\* from before the migration; the database holds either those contents
\* or those of a migration that committed, in which every list was
\* written in full; in no state is a table the migration writes to one
\* that had rows, has none and was given rows.
C24_MigrationAllOrNothing ==
    /\ migration.outcome = "rolled_back" => db = migration.before
    /\ migration.pc # "idle" =>
          \/ db = migration.before
          \/ /\ migration.outcome = "committed"
             /\ \A t \in {"departments", "request_types", "statuses"} :
                   /\ {row.name : row \in db[t]} =
                         {migration[t][i] : i \in 1..Len(migration[t])}
                   /\ Cardinality(db[t]) = Len(migration[t])
    /\ \A t \in CategoryTables :
          (migration.pc # "idle" /\ migration.before[t] # {} /\ db[t] = {})
            => Inserts(t) = 0

\* A statement failed after rows had been deleted and inserted, and the
\* rollback left the rows from before the migration in place.
C24_Witness ==
    /\ migration.outcome = "rolled_back"
    /\ Len(migration.log) > 8
    /\ migration.before["departments"] # {}
    /\ db = migration.before

\* The fields of a ServiceRequest the model fills in.
ExtractedFields ==
    {"service_type", "service_subtype", "location_address",
     "location_details", "description", "priority", "additional_notes"}

\* C25: the dict pipeline_311 returns on the PROCESS_NORMALLY path holds
\* every extracted field with the value extract_311_request returned, on
\* the EXPEDITE path every extracted field but priority, and the only
\* keys it has beyond those of the extracted record are classification
\* and status.
C25_ExtractedFieldsKept ==
    Processed =>
        /\ \A k \in ExtractedFields :
              (k = "priority" /\ result.status = "expedited")
              \/ result[k] = request_data[k]
        /\ DOMAIN result = DOMAIN request_data \cup {"classification", "status"}
        /\ result.status = "normal"
              <=> classification.recommendation = "PROCESS_NORMALLY"

\* An expedited result that kept the location details of the extractor.
C25_Witness ==
    /\ Processed
    /\ result.status = "expedited"
    /\ extraction.kind = "parsed"
    /\ result.location_details = "Near the bus stop"
    /\ result.priority # request_data.priority

\* C26 (as claimed): in a run of process_and_save_request save_to_database
\* is invoked at most once, and when the run is over it has been invoked
\* exactly when the run's
\* recommendation is EXPEDITE or PROCESS_NORMALLY and the extractor's
\* call succeeded with a parsed record.
C26_SaveIffBothStagesSucceeded ==
    /\ CallCount("save_to_database") <= 1
    /\ (entry = "process_and_save_request"
        /\ pc \in {"done", "raised", "raised_validation"})
          => (Called("save_to_database")
                <=> /\ entry_recommendation \in {EXPEDITE, PROCESS_NORMALLY}
                    /\ extraction.kind = "parsed")

\* C27: given a classifier that returns its classification as a mapping,
\* pipeline_311 of src/pipeline.py makes the same sequence of stage
\* calls as pipeline_311 of src/backend/pipeline.py for every response
\* of the classifier and every value the extractor returns, raises when
\* it raises and returns the same dict.
C27_PipelinesEquivalent ==
    (entry = "pipeline_311" /\ pc \in {"done", "raised"})
    => LET other == pipeline_311_mapping("mapping", response, request_data)
       IN  /\ calls = other.calls
           /\ pc = "raised" <=> other.outcome = "raised"
           /\ pc = "done" => result = other.result

\* Both returned the expedited dict with the priority written over.
C27_Witness ==
    /\ entry = "pipeline_311"
    /\ pc = "done"
    /\ result.status = "expedited"
    /\ request_data.priority = "LOW"
    /\ pipeline_311_mapping("mapping", response, request_data).result.priority
          = "URGENT"

\* The status keys the branch of a recommendation can return.
BranchStatuses(recommendation) ==
    IF recommendation = REDIRECT_TO_911 THEN {"emergency"}
    ELSE IF recommendation = REDIRECT_TO_OTHER_SERVICE THEN {"non_311"}
    ELSE IF recommendation = EXPEDITE THEN {"expedited", "error"}
    ELSE IF recommendation = PROCESS_NORMALLY THEN {"normal", "error"}
    ELSE {}

\* C28: the four tests of pipeline_311's chain are exhaustive and mutually
\* exclusive over what pre_classify_request returns: every run that
\* returns took the one branch of its recommendation, and no result
\* carries the message of the final else.
C28_FallbackUnreachable ==
    pc = "done" =>
        /\ Cardinality({b \in RequestRecommendation :
                            classification.recommendation = b}) = 1
        /\ "message" \in DOMAIN result => result.message # FallbackMessage
        /\ entry = "pipeline_311" =>
               result.status \in BranchStatuses(classification.recommendation)

\* A run returned from the REDIRECT_TO_OTHER_SERVICE branch although the
\* model had written another recommendation.
C28_Witness ==
    /\ entry = "pipeline_311"
    /\ pc = "done"
    /\ response.kind = "parsed"
    /\ response.recommendation = EXPEDITE
    /\ classification.recommendation = REDIRECT_TO_OTHER_SERVICE
    /\ result.status = "non_311"

\* The classification carries the recommendation the resolver's chain
\* gives for its two flags.
ResolverConsistent(cls) ==
    cls.recommendation = Resolver(cls.is_emergency, cls.belongs_in_311)

\* C29 (as claimed): convert_to_processed_service_request assembles a
\* record from every resolver-consistent classification, and is_actionable
\* holds for it exactly when the recommendation is PROCESS_NORMALLY; an
\* EXPEDITE record is valid and categorized with a critical triage and is
\* not actionable; the two redirects are invalid and not actionable; the
\* triage priority is critical for REDIRECT_TO_911, low for
\* REDIRECT_TO_OTHER_SERVICE and medium for PROCESS_NORMALLY.
C29_ActionableIffProcessNormally ==
    (AssemblyEnded /\ ResolverConsistent(classification))
    => /\ processed_request # PyNone
       /\ LET rec == classification.recommendation
              req == processed_request
          IN  /\ is_actionable(req) <=> rec = PROCESS_NORMALLY
              /\ rec = EXPEDITE =>
                     /\ req.validation.is_valid
                     /\ req.classification # PyNone
                     /\ req.triage.priority = "critical"
              /\ rec \in {REDIRECT_TO_911, REDIRECT_TO_OTHER_SERVICE} =>
                     /\ ~req.validation.is_valid
                     /\ req.status = "invalid"
              /\ rec = REDIRECT_TO_911 => req.triage.priority = "critical"
              /\ rec = REDIRECT_TO_OTHER_SERVICE =>
                     req.triage.priority = "low"
              /\ rec = PROCESS_NORMALLY => req.triage.priority = "medium"

\* C30 (as claimed): save_to_database never leaves a connection open or
\* half-committed: the finally clause is reached only after the commit or
\* the rollback has emptied the transaction, and when the function
\* returns or raises its cursor and its connection are closed.
C30_ConnectionReleased ==
    \A p \in Procs :
        /\ savers[p].pc = "close" => savers[p].tx = EmptyTables
        /\ savers[p].pc = "finished" =>
               /\ savers[p].tx = EmptyTables
               /\ ~savers[p].cursor
               /\ ~savers[p].conn

====
